---- MODULE Spec2Model ----
(***************************************************************************)
(* Model of phystone/find_pairs.py: find_ads_slab_pairs (matching of the   *)
(* atoms of two structures by their distances to four reference points)    *)
(* and find_symmetric_pairs (pairing of atoms that are point reflections   *)
(* of each other through the center of mass).                              *)
(*                                                                         *)
(* Numbers.  Coordinates of find_ads_slab_pairs are integers (Angstrom).   *)
(* A distance sqrt(r) is represented by its radicand r, an integer, and    *)
(* the comparison abs(sqrt(p) - sqrt(q)) <= tol is decided exactly in      *)
(* integer arithmetic (abs_diff_le).  The tolerance is counted in tenths.  *)
(* Coordinates of find_symmetric_pairs are integers in units of 1e-8, so   *)
(* that numpy.isclose's atol = 1e-8 is one unit and rtol = 1e-5 is         *)
(* 1/100000 of the reference value.                                        *)
(***************************************************************************)
EXTENDS Integers, Sequences, FiniteSets, TLC

VARIABLES
    pc,                \* position of the running call
    slab,              \* find_ads_slab_pairs: argument slab (sequence of atoms)
    ads,               \* find_ads_slab_pairs: argument ads (sequence of atoms)
    difference_tol,    \* find_ads_slab_pairs: argument difference_tol, in tenths
    slab_positions,    \* local list slab_positions
    ads_positions,     \* local list ads_positions
    mult,              \* local list mult of the last pass of the outer loop
    pair,              \* local list pair, the value returned
    atom_index_set_1,  \* find_symmetric_pairs: argument atom_index_set_1
    atom_index_set_2,  \* find_symmetric_pairs: argument atom_index_set_2
    center_of_mass,    \* local center_of_mass
    distances_1,       \* local dict distances_1, in insertion order
    distances_2,       \* local dict distances_2, in insertion order
    symmetric_atom_index_pairs   \* local list, the value returned

\* slab is the first argument of both functions.
adsVars == <<ads, difference_tol, slab_positions, ads_positions, mult, pair>>
symVars == <<atom_index_set_1, atom_index_set_2, center_of_mass, distances_1,
             distances_2, symmetric_atom_index_pairs>>
vars == <<pc, slab, adsVars, symVars>>

----------------------------------------------------------------------------
(* Bounds and input sets of find_ads_slab_pairs *)

MaxSlab == 2
MaxAds == 2

\* Tolerances drawn, in tenths: 0, 0.3 (the default) and 1.0.
TolDen == 10
Tolerances == {0, 3, 10}

\* Positions drawn for the atoms of slab and ads.
AdsSlabPositions ==
    { <<0, 0, 0>>, <<0, 0, 1>>, <<0, 0, -1>>, <<0, 0, 2>> }

\* Index of the first atom of (slab, ads); an atom's index is its place in
\* the structure counted from there.
IndexBases == { <<0, 0>>, <<5, 9>> }

\* The value standing for the placeholder 'n'; atom indexes are >= 0.
sentinel_n == -1

Atom(i, p) == [index |-> i, position |-> p]

\* All structures of exactly n atoms whose first atom has index base.
StructuresOfLen(n, base, positions) ==
    { [k \in 1..n |-> Atom(base + k - 1, f[k])] : f \in [1..n -> positions] }

Structures(maxLen, base, positions) ==
    UNION { StructuresOfLen(n, base, positions) : n \in 0..maxLen }

----------------------------------------------------------------------------
(* find_ads_slab_pairs *)

\* Radicands of the four distances of lines 42-52 (and 62-72).
distance_0(position) ==
    position[1] * position[1] + position[2] * position[2]
        + position[3] * position[3]

distance_1(position) ==
    (position[1] - 10) * (position[1] - 10)
        + (position[2] - 10) * (position[2] - 10)
        + position[3] * position[3]

distance_2(position) ==
    (position[1] - 0) * (position[1] - 0)
        + (position[2] - 10) * (position[2] - 10)
        + position[3] * position[3]

distance_3(position) ==
    (position[1] - 10) * (position[1] - 10)
        + (position[2] - 0) * (position[2] - 0)
        + position[3] * position[3]

\* One element of slab_positions / ads_positions:
\* [index, distance_0, distance_1, distance_2, distance_3].
fingerprint(loc) ==
    << loc.index, distance_0(loc.position), distance_1(loc.position),
       distance_2(loc.position), distance_3(loc.position) >>

positions_of(structure) ==
    [k \in 1..Len(structure) |-> fingerprint(structure[k])]

\* abs(sqrt(p) - sqrt(q)) <= tol / TolDen, exactly.  With hi >= lo the
\* radicands: sqrt(hi) - sqrt(lo) <= t  iff  hi - lo - t^2 <= 2 t sqrt(lo).
abs_diff_le_strict(p, q, tol) ==
    LET hi == IF p >= q THEN p ELSE q
        lo == IF p >= q THEN q ELSE p
        D  == TolDen * TolDen * (hi - lo) - tol * tol
    IN  D < 0 \/ (D * D < 4 * TolDen * TolDen * tol * tol * lo)

abs_diff_le(p, q, tol) ==
    LET hi == IF p >= q THEN p ELSE q
        lo == IF p >= q THEN q ELSE p
        D  == TolDen * TolDen * (hi - lo) - tol * tol
    IN  D <= 0 \/ (D * D <= 4 * TolDen * TolDen * tol * tol * lo)

\* The condition of lines 85-88, without its first conjunct.
is_candidate_no_origin(s_loc, a_loc, tol) ==
    /\ abs_diff_le(s_loc[3], a_loc[3], tol)
    /\ abs_diff_le(s_loc[4], a_loc[4], tol)
    /\ abs_diff_le(s_loc[5], a_loc[5], tol)

\* The condition of lines 85-88.
is_candidate(s_loc, a_loc, tol) ==
    /\ abs_diff_le(s_loc[2], a_loc[2], tol)
    /\ abs_diff_le(s_loc[3], a_loc[3], tol)
    /\ abs_diff_le(s_loc[4], a_loc[4], tol)
    /\ abs_diff_le(s_loc[5], a_loc[5], tol)

\* The inner loop, lines 81-91: mult after the atoms ads_positions[1..n]
\* have been scanned.  An element is [a_loc[0], s_loc[1]-a_loc[1],
\* s_loc[2]-a_loc[2]]; a difference of two roots is kept as the pair of
\* its radicands.
RECURSIVE mult_after(_, _, _, _)
mult_after(s_loc, a_positions, tol, n) ==
    IF n = 0 THEN << >>
    ELSE LET before == mult_after(s_loc, a_positions, tol, n - 1)
             a_loc  == a_positions[n]
         IN  IF is_candidate(s_loc, a_loc, tol)
             THEN Append(before, << a_loc[1], <<s_loc[2], a_loc[2]>>,
                                    <<s_loc[3], a_loc[3]>> >>)
             ELSE before

\* Lines 93-95: the placeholder when nothing matched.
with_placeholder(m) ==
    IF m = << >> THEN << <<sentinel_n>> >> ELSE m

\* Variant of mult_of in which the placeholder is always put in front.
mult_of_placeholder_first(s_loc, a_positions, tol) ==
    << <<sentinel_n>> >>
        \o mult_after(s_loc, a_positions, tol, Len(a_positions))

\* Variant of mult_of in which an atom of ads already paired is skipped.
mult_of_consuming(s_loc, a_positions, tol) ==
    LET used == { pair[k][2] : k \in 1..Len(pair) }
        free == SelectSeq(a_positions, LAMBDA a : a[1] \notin used)
    IN  with_placeholder(mult_after(s_loc, free, tol, Len(free)))

\* Lines 81-95: mult when the inner loop has ended and the placeholder has
\* been added.
mult_of(s_loc, a_positions, tol) ==
    with_placeholder(mult_after(s_loc, a_positions, tol, Len(a_positions)))

\* Variant of pair_entry that takes the last match instead of the first.
pair_entry_last(s_loc, m) == << s_loc[1], m[Len(m)][1] >>

\* Variant of pair_entry with the two indexes exchanged.
pair_entry_swapped(s_loc, m) == << m[1][1], s_loc[1] >>

\* Line 98: the element appended to pair.
pair_entry(s_loc, m) == << s_loc[1], m[1][1] >>

\* The outer loop, lines 77-100.
RECURSIVE pair_after(_, _, _, _)
pair_after(s_positions, a_positions, tol, n) ==
    IF n = 0 THEN << >>
    ELSE Append(pair_after(s_positions, a_positions, tol, n - 1),
                pair_entry(s_positions[n],
                           mult_of(s_positions[n], a_positions, tol)))

\* The function as a whole.
find_ads_slab_pairs(slab_arg, ads_arg, tol) ==
    pair_after(positions_of(slab_arg), positions_of(ads_arg), tol,
               Len(slab_arg))

----------------------------------------------------------------------------
(* The call of find_ads_slab_pairs as a state machine *)

InitAds ==
    /\ pc = "start"
    /\ \E b \in IndexBases :
          /\ slab \in Structures(MaxSlab, b[1], AdsSlabPositions)
          /\ ads \in Structures(MaxAds, b[2], AdsSlabPositions)
    /\ difference_tol \in Tolerances
    /\ slab_positions = << >>
    /\ ads_positions = << >>
    /\ mult = << >>
    /\ pair = << >>
    /\ atom_index_set_1 = << >>
    /\ atom_index_set_2 = << >>
    /\ center_of_mass = << >>
    /\ distances_1 = << >>
    /\ distances_2 = << >>
    /\ symmetric_atom_index_pairs = << >>

\* Lines 37-55.
SlabPositions ==
    /\ pc = "start"
    /\ slab_positions' = positions_of(slab)
    /\ pc' = "slab_positions"
    /\ UNCHANGED <<slab, ads, difference_tol, ads_positions, mult, pair, symVars>>

\* Lines 57-75.
AdsPositions ==
    /\ pc = "slab_positions"
    /\ ads_positions' = positions_of(ads)
    /\ pc' = "pairing"
    /\ UNCHANGED <<slab, ads, difference_tol, slab_positions, mult, pair, symVars>>

\* Lines 79-98: one pass of the outer loop.
PairAtom ==
    /\ pc = "pairing"
    /\ Len(pair) < Len(slab_positions)
    /\ mult' = mult_of(slab_positions[Len(pair) + 1], ads_positions,
                        difference_tol)
    /\ pair' = Append(pair, pair_entry(slab_positions[Len(pair) + 1], mult'))
    /\ UNCHANGED <<pc, slab, ads, difference_tol, slab_positions,
                   ads_positions, symVars>>

\* Line 100.
ReturnPair ==
    /\ pc = "pairing"
    /\ Len(pair) = Len(slab_positions)
    /\ pc' = "returned"
    /\ UNCHANGED <<slab, adsVars, symVars>>

NextAds == SlabPositions \/ AdsPositions \/ PairAtom \/ ReturnPair

SpecAds == InitAds /\ [][NextAds]_vars

----------------------------------------------------------------------------
(* Bounds and input sets of find_symmetric_pairs *)

MaxSet == 3

\* numpy.isclose's defaults, atol = 1e-8 and rtol = 1e-5, in the units of
\* the coordinates: atol is one unit and rtol is 1 / RtolInv.
Atol == 1
RtolInv == 100000

MassAtom(p, m) == [position |-> p, mass |-> m]

\* Structures drawn; the atom at place k has index k - 1.  Their centers
\* of mass have whole coordinates.
SymStructures ==
    { \* two atoms, each the reflection of the other through (0,0,0)
      << MassAtom(<<1, 2, 3>>, 1), MassAtom(<<-1, -2, -3>>, 1) >>,
      \* two atoms at the same place
      << MassAtom(<<5, 5, 5>>, 1), MassAtom(<<5, 5, 5>>, 1) >>,
      \* reflection up to one unit in z; the third atom matches nothing
      << MassAtom(<<10, 20, 30>>, 1), MassAtom(<<-10, -20, -31>>, 1),
         MassAtom(<<0, 0, 1>>, 1) >>,
      \* unequal masses: the center of mass (0,0,1) is not the midpoint,
      \* and the displacements are opposite in x and y only
      << MassAtom(<<0, 0, 0>>, 3), MassAtom(<<0, 0, 4>>, 1) >>,
      \* two units apart in x, far from the center of mass
      << MassAtom(<<99999, 0, 0>>, 1), MassAtom(<<-100001, 0, 0>>, 1),
         MassAtom(<<2, 0, 0>>, 1) >> }

\* Sequences over S of length at most n.
SeqsUpTo(S, n) == UNION { [1..k -> S] : k \in 0..n }

----------------------------------------------------------------------------
(* find_symmetric_pairs *)

RECURSIVE weighted_sum(_, _, _)
weighted_sum(slab_arg, c, n) ==
    IF n = 0 THEN 0
    ELSE weighted_sum(slab_arg, c, n - 1)
            + slab_arg[n].mass * slab_arg[n].position[c]

RECURSIVE total_mass(_, _)
total_mass(slab_arg, n) ==
    IF n = 0 THEN 0 ELSE total_mass(slab_arg, n - 1) + slab_arg[n].mass

\* Line 123: the mass-weighted mean of the positions.
get_center_of_mass(slab_arg) ==
    [c \in 1..3 |-> weighted_sum(slab_arg, c, Len(slab_arg))
                        \div total_mass(slab_arg, Len(slab_arg))]

\* slab[dex] succeeds.
has_index(slab_arg, dex) == dex >= 0 /\ dex < Len(slab_arg)

\* Lines 133-135 (139-141): the value stored for dex.
displacement(slab_arg, dex, com) ==
    [c \in 1..3 |-> slab_arg[dex + 1].position[c] - com[c]]

\* Variant of dict_set that adds an item for every assignment.
dict_set_append(d, key, value) == Append(d, <<key, value>>)

\* Variant of dict_set that moves a key assigned again to the end.
dict_set_move_to_end(d, key, value) ==
    Append(SelectSeq(d, LAMBDA item : item[1] # key), <<key, value>>)

\* d[key] = value on a dict kept as the sequence of its items: a key
\* already present keeps its place and takes the new value.
dict_set(d, key, value) ==
    IF \E i \in 1..Len(d) : d[i][1] = key
    THEN [i \in 1..Len(d) |-> IF d[i][1] = key THEN <<key, value>> ELSE d[i]]
    ELSE Append(d, <<key, value>>)

\* Number of passes of the loop of line 131 (137) that complete: all of
\* them, or those before the first index that slab does not hold.
passes_completed(slab_arg, index_set) ==
    IF \A i \in 1..Len(index_set) : has_index(slab_arg, index_set[i])
    THEN Len(index_set)
    ELSE (CHOOSE i \in 1..Len(index_set) :
            /\ ~has_index(slab_arg, index_set[i])
            /\ \A h \in 1..(i - 1) : has_index(slab_arg, index_set[h])) - 1

\* Lines 131-135 (137-141): the dict after n passes.
RECURSIVE distances_after(_, _, _, _)
distances_after(slab_arg, index_set, com, n) ==
    IF n = 0 THEN << >>
    ELSE dict_set(distances_after(slab_arg, index_set, com, n - 1),
                  index_set[n], displacement(slab_arg, index_set[n], com))

Abs(x) == IF x >= 0 THEN x ELSE -x

\* Variant of isclose without the relative term.
isclose_atol_only(a, b) == Abs(a - b) <= Atol

\* numpy.isclose(a, b): abs(a - b) <= atol + rtol * abs(b).  For whole
\* a and b this is abs(a - b) - atol <= abs(b) \div RtolInv.
isclose(a, b) == Abs(a - b) - Atol <= Abs(b) \div RtolInv

\* Variant of is_symmetric that leaves out the third coordinate.
is_symmetric_xy(first_distance, second_distance) ==
    /\ isclose(first_distance[1], second_distance[1] * (-1))
    /\ isclose(first_distance[2], second_distance[2] * (-1))

\* The condition of lines 147-149.
is_symmetric(first_distance, second_distance) ==
    /\ isclose(first_distance[1], second_distance[1] * (-1))
    /\ isclose(first_distance[2], second_distance[2] * (-1))
    /\ isclose(first_distance[3], second_distance[3] * (-1))

\* Lines 145-151: the pairs appended for one item of distances_1 when the
\* first n items of distances_2 have been compared.
RECURSIVE pairs_of_item(_, _, _)
pairs_of_item(first, d2, n) ==
    IF n = 0 THEN << >>
    ELSE LET before == pairs_of_item(first, d2, n - 1)
         IN  IF is_symmetric(first[2], d2[n][2])
             THEN Append(before, << first[1], d2[n][1] >>)
             ELSE before

\* Lines 143-151: the list after the first n items of distances_1.
RECURSIVE pairs_after(_, _, _)
pairs_after(d1, d2, n) ==
    IF n = 0 THEN << >>
    ELSE pairs_after(d1, d2, n - 1) \o pairs_of_item(d1[n], d2, Len(d2))

\* The function as a whole, for index sets that slab holds.
find_symmetric_pairs(slab_arg, set_1, set_2) ==
    LET com == get_center_of_mass(slab_arg)
        d1  == distances_after(slab_arg, set_1, com, Len(set_1))
        d2  == distances_after(slab_arg, set_2, com, Len(set_2))
    IN  pairs_after(d1, d2, Len(d1))

----------------------------------------------------------------------------
(* The call of find_symmetric_pairs as a state machine *)

InitSym ==
    /\ pc = "start"
    /\ slab \in SymStructures
    /\ atom_index_set_1 \in SeqsUpTo(0..Len(slab), MaxSet)
    /\ atom_index_set_2 \in SeqsUpTo(0..Len(slab), MaxSet)
    /\ center_of_mass = << >>
    /\ distances_1 = << >>
    /\ distances_2 = << >>
    /\ symmetric_atom_index_pairs = << >>
    /\ ads = << >>
    /\ difference_tol = 0
    /\ slab_positions = << >>
    /\ ads_positions = << >>
    /\ mult = << >>
    /\ pair = << >>

\* Line 123.
CenterOfMass ==
    /\ pc = "start"
    /\ center_of_mass' = get_center_of_mass(slab)
    /\ pc' = "center_of_mass"
    /\ UNCHANGED <<slab, adsVars, atom_index_set_1, atom_index_set_2,
                   distances_1, distances_2, symmetric_atom_index_pairs>>

\* Lines 131-135, every index found.
CollectSet1 ==
    /\ pc = "center_of_mass"
    /\ passes_completed(slab, atom_index_set_1) = Len(atom_index_set_1)
    /\ distances_1' = distances_after(slab, atom_index_set_1, center_of_mass,
                                      Len(atom_index_set_1))
    /\ pc' = "distances_1"
    /\ UNCHANGED <<slab, adsVars, atom_index_set_1, atom_index_set_2,
                   center_of_mass, distances_2, symmetric_atom_index_pairs>>

\* Lines 131-135, slab[dex] fails: the error leaves the function.
RaiseInSet1 ==
    /\ pc = "center_of_mass"
    /\ passes_completed(slab, atom_index_set_1) < Len(atom_index_set_1)
    /\ distances_1' = distances_after(slab, atom_index_set_1, center_of_mass,
                          passes_completed(slab, atom_index_set_1))
    /\ pc' = "raised"
    /\ UNCHANGED <<slab, adsVars, atom_index_set_1, atom_index_set_2,
                   center_of_mass, distances_2, symmetric_atom_index_pairs>>

\* Lines 137-141, every index found.
CollectSet2 ==
    /\ pc = "distances_1"
    /\ passes_completed(slab, atom_index_set_2) = Len(atom_index_set_2)
    /\ distances_2' = distances_after(slab, atom_index_set_2, center_of_mass,
                                      Len(atom_index_set_2))
    /\ pc' = "distances_2"
    /\ UNCHANGED <<slab, adsVars, atom_index_set_1, atom_index_set_2,
                   center_of_mass, distances_1, symmetric_atom_index_pairs>>

\* Variant of RaiseInSet2 in which the failed lookup ends the loop only.
RaiseInSet2_Continue ==
    /\ pc = "distances_1"
    /\ passes_completed(slab, atom_index_set_2) < Len(atom_index_set_2)
    /\ distances_2' = distances_after(slab, atom_index_set_2, center_of_mass,
                          passes_completed(slab, atom_index_set_2))
    /\ pc' = "distances_2"
    /\ UNCHANGED <<slab, adsVars, atom_index_set_1, atom_index_set_2,
                   center_of_mass, distances_1, symmetric_atom_index_pairs>>

\* Lines 137-141, slab[dex] fails: the error leaves the function.
RaiseInSet2 ==
    /\ pc = "distances_1"
    /\ passes_completed(slab, atom_index_set_2) < Len(atom_index_set_2)
    /\ distances_2' = distances_after(slab, atom_index_set_2, center_of_mass,
                          passes_completed(slab, atom_index_set_2))
    /\ pc' = "raised"
    /\ UNCHANGED <<slab, adsVars, atom_index_set_1, atom_index_set_2,
                   center_of_mass, distances_1, symmetric_atom_index_pairs>>

\* Lines 143-151.
ComparePairs ==
    /\ pc = "distances_2"
    /\ symmetric_atom_index_pairs' =
          pairs_after(distances_1, distances_2, Len(distances_1))
    /\ pc' = "compared"
    /\ UNCHANGED <<slab, adsVars, atom_index_set_1, atom_index_set_2,
                   center_of_mass, distances_1, distances_2>>

\* Line 153.
ReturnSymmetricPairs ==
    /\ pc = "compared"
    /\ pc' = "returned"
    /\ UNCHANGED <<slab, adsVars, symVars>>

NextSym ==
    \/ CenterOfMass
    \/ CollectSet1
    \/ RaiseInSet1
    \/ CollectSet2
    \/ RaiseInSet2
    \/ ComparePairs
    \/ ReturnSymmetricPairs

SpecSym == InitSym /\ [][NextSym]_vars

----------------------------------------------------------------------------
(* Properties of find_ads_slab_pairs *)

OriginPoint == << <<0, 0, 0>> >>
OffOriginPoints == << <<10, 10, 0>>, <<0, 10, 0>>, <<10, 0, 0>> >>
ReferencePoints == OriginPoint \o OffOriginPoints

\* Square of the distance between two points.
SqDist(p, r) ==
    (p[1] - r[1]) * (p[1] - r[1]) + (p[2] - r[2]) * (p[2] - r[2])
        + (p[3] - r[3]) * (p[3] - r[3])

\* The distances of atoms s and a to every point of refs differ by at most
\* the tolerance.
WithinTol(s, a, refs) ==
    \A i \in 1..Len(refs) :
        abs_diff_le(SqDist(s.position, refs[i]), SqDist(a.position, refs[i]),
                    difference_tol)

\* Places in ads of the atoms that agree with the k-th atom of slab on refs.
CandidatesOf(k, refs) ==
    { j \in 1..Len(ads) : WithinTol(slab[k], ads[j], refs) }

ZeroDifference(s, a) ==
    \A i \in 1..Len(ReferencePoints) :
        SqDist(s.position, ReferencePoints[i])
            = SqDist(a.position, ReferencePoints[i])

Min(S) == CHOOSE x \in S : \A y \in S : x <= y

Returned == pc = "returned"

\* mult, as left by the pass for the k-th atom of slab, holds exactly the
\* atoms of ads that agree with it on refs (the placeholder when none does).
MultIsCandidates(k, refs) ==
    LET cands == CandidatesOf(k, refs)
    IN  IF cands = {}
        THEN mult = << <<sentinel_n>> >>
        ELSE /\ Len(mult) = Cardinality(cands)
             /\ { mult[i][1] : i \in 1..Len(mult) }
                    = { ads[j].index : j \in cands }

\* C1: the result has one entry per atom of slab, in slab's order, and the
\* first element of the k-th entry is the index of the k-th atom of slab;
\* this holds for every ads, also an empty one or one shorter than slab.
C1_OneEntryPerSlabAtom ==
    /\ pc \in {"start", "slab_positions", "pairing", "returned"}
    /\ Len(pair) <= Len(slab)
    /\ \A k \in 1..Len(pair) :
          /\ Len(pair[k]) = 2
          /\ pair[k][1] = slab[k].index
    /\ Returned => /\ Len(pair) = Len(slab)
                   /\ (pair = << >>) <=> (slab = << >>)

C1_Witness ==
    /\ Returned
    /\ Len(slab) = 2
    /\ Len(ads) < Len(slab)
    /\ slab[1].index = 5
    /\ Len(pair) = 2

\* C2 (as stated): an atom of ads is collected as a candidate exactly when
\* its distances to the three off-origin reference points agree within the
\* tolerance; the origin distance plays no part.
C2_Original_OffOriginOnly ==
    (pc \in {"pairing", "returned"} /\ Len(pair) >= 1)
        => MultIsCandidates(Len(pair), OffOriginPoints)

\* C2 (amended): an atom of ads is collected as a candidate exactly when its
\* distances to all four reference points, the origin included, agree
\* within the tolerance (inclusive).
C2_AllFourCompared ==
    (pc \in {"pairing", "returned"} /\ Len(pair) >= 1)
        => MultIsCandidates(Len(pair), ReferencePoints)

\* An atom of ads agrees on the three off-origin points, differs on the
\* origin distance, and is left out.
C2_Witness ==
    /\ pc \in {"pairing", "returned"}
    /\ Len(pair) >= 1
    /\ \E j \in CandidatesOf(Len(pair), OffOriginPoints) :
          /\ j \notin CandidatesOf(Len(pair), ReferencePoints)
          /\ \A i \in 1..Len(mult) : mult[i][1] # ads[j].index
    /\ \E j \in CandidatesOf(Len(pair), ReferencePoints) :
          ~ZeroDifference(slab[Len(pair)], ads[j])

\* C3: an atom of slab with at least one candidate is paired with the first
\* candidate in the order of ads, whatever the later candidates.
C3_FirstCandidate ==
    \A k \in 1..Len(pair) :
        LET cands == CandidatesOf(k, ReferencePoints)
        IN  cands # {} => pair[k][2] = ads[Min(cands)].index

\* A later candidate fits better (zero difference) than the one taken.
C3_Witness ==
    /\ Returned
    /\ \E k \in 1..Len(pair) :
          \E j1, j2 \in CandidatesOf(k, ReferencePoints) :
              /\ j1 < j2
              /\ pair[k][2] = ads[j1].index
              /\ ~ZeroDifference(slab[k], ads[j1])
              /\ ZeroDifference(slab[k], ads[j2])

\* C4: the second element of an entry is the placeholder exactly when ads
\* holds no candidate, and otherwise the index of an atom of ads; with an
\* empty ads every entry carries the placeholder.
C4_SentinelIffNoCandidate ==
    /\ \A k \in 1..Len(pair) :
          /\ (pair[k][2] = sentinel_n)
                <=> (CandidatesOf(k, ReferencePoints) = {})
          /\ (pair[k][2] # sentinel_n)
                => \E j \in 1..Len(ads) : pair[k][2] = ads[j].index
    /\ (ads = << >>) => \A k \in 1..Len(pair) : pair[k][2] = sentinel_n

C4_Witness ==
    /\ Returned
    /\ ads # << >>
    /\ \E k, l \in 1..Len(pair) :
          /\ pair[k][2] = sentinel_n
          /\ pair[l][2] # sentinel_n

\* ads repeats the positions of slab in the same order.
AdsCopiesSlab ==
    /\ Len(ads) = Len(slab)
    /\ \A k \in 1..Len(slab) : ads[k].position = slab[k].position

\* C5 (as stated): when ads is a copy of slab, every atom of slab is paired
\* with an atom of ads at its own position, never with the placeholder.
C5_Original_SamePosition ==
    (Returned /\ AdsCopiesSlab)
        => \A k \in 1..Len(pair) :
              /\ pair[k][2] # sentinel_n
              /\ \E j \in 1..Len(ads) :
                    /\ pair[k][2] = ads[j].index
                    /\ ads[j].position = slab[k].position

\* C5 (amended): when ads is a copy of slab, every atom of slab is paired
\* with its own copy or with an earlier atom of ads whose four distances
\* agree with its own within the tolerance, never with the placeholder.
C5_CopyPairedAtOrBeforeItself ==
    (Returned /\ AdsCopiesSlab)
        => \A k \in 1..Len(pair) :
              /\ pair[k][2] # sentinel_n
              /\ \E j \in 1..k :
                    /\ pair[k][2] = ads[j].index
                    /\ WithinTol(slab[k], ads[j], ReferencePoints)

\* Both outcomes occur: an atom paired with its own copy at tolerance 0 and
\* an atom paired with an earlier atom at another position.
C5_Witness ==
    /\ Returned
    /\ AdsCopiesSlab
    /\ Len(slab) = 2
    /\ difference_tol = 0
    /\ pair[1][2] = ads[1].index
    /\ pair[2][2] = ads[1].index
    /\ ads[1].position # slab[2].position

\* C10: the entry of an atom of slab depends on that atom, ads and the
\* tolerance only: the result for slab is the result for any front part of
\* slab followed by the result for the rest, and every entry is the result
\* for the one-atom structure.
C10_EntriesIndependent ==
    Returned =>
        /\ \A k \in 0..Len(slab) :
              pair = find_ads_slab_pairs(SubSeq(slab, 1, k), ads,
                                         difference_tol)
                     \o find_ads_slab_pairs(SubSeq(slab, k + 1, Len(slab)),
                                            ads, difference_tol)
        /\ \A k \in 1..Len(slab) :
              << pair[k] >> = find_ads_slab_pairs(<< slab[k] >>, ads,
                                                  difference_tol)

\* Two atoms of slab at different positions are paired with the same atom.
C10_Witness ==
    /\ Returned
    /\ Len(pair) = 2
    /\ slab[1].position # slab[2].position
    /\ pair[1][2] = pair[2][2]
    /\ pair[1][2] # sentinel_n

----------------------------------------------------------------------------
(* Properties of find_symmetric_pairs *)

Range(f) == { f[i] : i \in 1..Len(f) }

\* Displacement of the atom of index i from the center of mass.
Disp(i) == [c \in 1..3 |-> slab[i + 1].position[c] - center_of_mass[c]]

\* The displacement of atom i is close to the negation of that of atom j,
\* on every coordinate: they add up to at most atol plus the fraction rtol
\* of the displacement of j (rounded down, the sum being whole).
ApproxNegation(i, j) ==
    \A c \in 1..3 :
        Abs(Disp(i)[c] + Disp(j)[c])
            <= Atol + (Abs(Disp(j)[c]) \div RtolInv)

ExactReflection(i, j) == \A c \in 1..3 : Disp(i)[c] = -Disp(j)[c]

\* Place of the first occurrence of x in sequence f.
FirstPlace(f, x) ==
    CHOOSE k \in 1..Len(f) : f[k] = x /\ \A h \in 1..(k - 1) : f[h] # x

\* f without the occurrences that repeat an earlier element.
FirstOccurrences(f) ==
    SelectSeq([k \in 1..Len(f) |-> <<k, f[k]>>],
              LAMBDA e : FirstPlace(f, e[2]) = e[1])

IndexesOf(f) == [k \in 1..Len(f) |-> f[k][2]]

MissingIndex ==
    \E dex \in Range(atom_index_set_1) \cup Range(atom_index_set_2) :
        dex < 0 \/ dex >= Len(slab)

SymReturned == pc = "returned"

\* p comes before q in the nested order of the two index sets.
NestedBefore(p, q) ==
    \/ FirstPlace(atom_index_set_1, p[1]) < FirstPlace(atom_index_set_1, q[1])
    \/ /\ p[1] = q[1]
       /\ FirstPlace(atom_index_set_2, p[2])
              < FirstPlace(atom_index_set_2, q[2])

\* C6: the result holds exactly the pairs (i, j), i of set 1 and j of set 2,
\* whose displacements are approximate negations of each other, in nested
\* order; exact reflections are among them, and it is empty without any.
C6_ExactlySymmetricPairsInOrder ==
    SymReturned =>
        LET r == symmetric_atom_index_pairs
        IN  /\ Range(r) = { p \in Range(atom_index_set_1)
                                    \X Range(atom_index_set_2) :
                                ApproxNegation(p[1], p[2]) }
            /\ \A m, n \in 1..Len(r) : m < n => NestedBefore(r[m], r[n])
            /\ \A i \in Range(atom_index_set_1) :
                  \A j \in Range(atom_index_set_2) :
                      ExactReflection(i, j) => <<i, j>> \in Range(r)
            /\ (\A i \in Range(atom_index_set_1) :
                   \A j \in Range(atom_index_set_2) : ~ApproxNegation(i, j))
                  => r = << >>

\* Exact reflections away from the center of mass, listed in nested order,
\* next to pairs that are left out.
C6_Witness ==
    /\ SymReturned
    /\ Len(symmetric_atom_index_pairs) = 2
    /\ symmetric_atom_index_pairs[1][1] # symmetric_atom_index_pairs[2][1]
    /\ \A m \in 1..2 :
          /\ ExactReflection(symmetric_atom_index_pairs[m][1],
                             symmetric_atom_index_pairs[m][2])
          /\ Disp(symmetric_atom_index_pairs[m][1]) # <<0, 0, 0>>
    /\ Cardinality(Range(atom_index_set_1)) = 2
    /\ Cardinality(Range(atom_index_set_2)) = 2

MinOf(a, b) == IF a <= b THEN a ELSE b

\* C7 (as stated): the number of pairs returned is at most the smaller of
\* the sizes of the two index sets.
C7_Original_AtMostMin ==
    SymReturned =>
        Len(symmetric_atom_index_pairs)
            <= MinOf(Len(atom_index_set_1), Len(atom_index_set_2))

\* C7 (amended): the number of pairs returned is at most the number of
\* distinct indexes of set 1 times the number of distinct indexes of set 2.
C7_AtMostProduct ==
    SymReturned =>
        Len(symmetric_atom_index_pairs)
            <= Cardinality(Range(atom_index_set_1))
                 * Cardinality(Range(atom_index_set_2))

\* An atom is in two pairs, and the pairs outnumber the smaller set.
C7_Witness ==
    /\ SymReturned
    /\ Len(symmetric_atom_index_pairs)
          > MinOf(Len(atom_index_set_1), Len(atom_index_set_2))
    /\ Len(symmetric_atom_index_pairs)
          = Cardinality(Range(atom_index_set_1))
              * Cardinality(Range(atom_index_set_2))
    /\ \E m, n \in 1..Len(symmetric_atom_index_pairs) :
          /\ m # n
          /\ symmetric_atom_index_pairs[m][1]
                = symmetric_atom_index_pairs[n][1]

\* C8: with an index that slab does not hold in either set, the call ends
\* with the lookup error while the displacements are collected: nothing is
\* compared, no pair is emitted and nothing is returned.
C8_MissingIndexRaises ==
    /\ MissingIndex =>
          /\ pc \in {"start", "center_of_mass", "distances_1", "raised"}
          /\ symmetric_atom_index_pairs = << >>
          /\ ~(ENABLED NextSym) => pc = "raised"
    /\ pc = "raised" => MissingIndex

\* The error comes in the second loop, after displacements that would have
\* made a pair were stored.
C8_Witness ==
    /\ pc = "raised"
    /\ \E a \in 1..Len(distances_1) : \E b \in 1..Len(distances_2) :
          is_symmetric(distances_1[a][2], distances_2[b][2])
    /\ symmetric_atom_index_pairs = << >>

\* C9: an index repeated in an index set has a single item in the dict, no
\* pair is returned twice, and the result is that for the index sets with
\* the repeats after the first occurrence removed.
C9_RepeatsCollapse ==
    /\ pc \in {"distances_1", "distances_2", "compared", "returned"}
          => /\ Len(distances_1) = Cardinality(Range(atom_index_set_1))
             /\ [k \in 1..Len(distances_1) |-> distances_1[k][1]]
                   = IndexesOf(FirstOccurrences(atom_index_set_1))
    /\ pc \in {"distances_2", "compared", "returned"}
          => [k \in 1..Len(distances_2) |-> distances_2[k][1]]
                = IndexesOf(FirstOccurrences(atom_index_set_2))
    /\ SymReturned =>
          /\ \A m, n \in 1..Len(symmetric_atom_index_pairs) :
                m # n => symmetric_atom_index_pairs[m]
                            # symmetric_atom_index_pairs[n]
          /\ symmetric_atom_index_pairs
                = find_symmetric_pairs(slab,
                      IndexesOf(FirstOccurrences(atom_index_set_1)),
                      IndexesOf(FirstOccurrences(atom_index_set_2)))

\* An index comes back after another one in set 1, and both make a pair.
C9_Witness ==
    /\ SymReturned
    /\ Len(atom_index_set_1) = 3
    /\ atom_index_set_1[1] = atom_index_set_1[3]
    /\ atom_index_set_1[1] # atom_index_set_1[2]
    /\ Len(atom_index_set_2) > Cardinality(Range(atom_index_set_2))
    /\ Len(symmetric_atom_index_pairs) = 2
    /\ symmetric_atom_index_pairs[1][1] = atom_index_set_1[1]
    /\ symmetric_atom_index_pairs[2][1] = atom_index_set_1[2]

====
